---------------------------- MODULE Spec2Model ----------------------------
(***************************************************************************)
(* The public status and uptime query engine of Uptimer                    *)
(* (src/apps/web/src/pages/AdminLogin.tsx, lines 109-601): the interval    *)
(* algebra, the observation gap classifier, and the GET /status and        *)
(* GET /monitors/:id/uptime handlers.                                      *)
(*                                                                         *)
(* All times are integer seconds.  A nullable column or variable is a      *)
(* sequence of length 0 (null) or 1 (the value).                           *)
(***************************************************************************)
EXTENDS Integers, Sequences, FiniteSets

VARIABLES
    db,        \* the datastore snapshot read by a handler
    now,       \* Math.floor(Date.now() / 1000) of the request
    response,  \* the JSON document the handler returned
    args,      \* the arguments of a call of a pure function
    ret        \* what the call returned

vars == <<db, now, response, args, ret>>

(***************************************************************************)
(* Bounds of the model.                                                    *)
(***************************************************************************)
\* interval endpoints of the interval-algebra inputs range over 0 .. MaxT
MaxT == 3
\* longest list of intervals handed to mergeIntervals / sumIntervals
MaxLen == 3
\* longest unmerged list handed to overlapSeconds beside an interval set
MaxPairLen == 2
\* buildUnknownIntervals: checked_at and rangeEnd range over 0 .. MaxCheckT,
\* the range starts at ClassifyFrom, intervalSec ranges over 0 .. MaxIntervalSec,
\* and there are at most MaxChecks checks
MaxCheckT == 5
ClassifyFrom == 2
MaxIntervalSec == 3
MaxChecks == 3
\* the clock of a handler request (seconds since the epoch)
ClockAt == 3000007
\* most outage rows plus check rows of the monitor whose uptime is asked
MaxRows == 3
\* most checks of one monitor inside the heartbeat lookback
MaxBurst == 62

Null == <<>>
Some(v) == <<v>>
IsNull(x) == x = <<>>
Val(x) == x[1]

Max(a, b) == IF a >= b THEN a ELSE b
Min(a, b) == IF a <= b THEN a ELSE b

(***************************************************************************)
(* Interval algebra.  type Interval = { start: number; end: number }       *)
(***************************************************************************)
Interval(s, e) == [start |-> s, end |-> e]

\* Array.prototype.sort is stable: an element goes after every element
\* whose start is <= its own (comparator a.start - b.start).
RECURSIVE InsertByStart(_, _)
InsertByStart(sorted, x) ==
    IF sorted = <<>> THEN <<x>>
    ELSE IF Head(sorted).start <= x.start
         THEN <<Head(sorted)>> \o InsertByStart(Tail(sorted), x)
         ELSE <<x>> \o sorted

RECURSIVE SortByStart(_)
SortByStart(s) ==
    IF s = <<>> THEN <<>>
    ELSE InsertByStart(SortByStart(SubSeq(s, 1, Len(s) - 1)), s[Len(s)])

\* a faulty Coalesces: touching intervals are not coalesced
CoalescesStrict(prev, cur) == cur.start < prev.end

\* the test `cur.start <= prev.end` of mergeIntervals and pushMergedInterval
Coalesces(prev, cur) == cur.start <= prev.end

RECURSIVE MergeLoop(_, _)
MergeLoop(merged, rest) ==
    IF rest = <<>> THEN merged
    ELSE LET cur == Head(rest)
             prev == merged[Len(merged)]
         IN IF Coalesces(prev, cur)
            THEN MergeLoop([merged EXCEPT ![Len(merged)].end = Max(prev.end, cur.end)],
                           Tail(rest))
            ELSE MergeLoop(Append(merged, Interval(cur.start, cur.end)), Tail(rest))

mergeIntervals(intervals) ==
    IF Len(intervals) = 0 THEN <<>>
    ELSE LET sorted == SortByStart(intervals)
         IN MergeLoop(<<Interval(sorted[1].start, sorted[1].end)>>, Tail(sorted))

\* a faulty IntervalLength: an inverted interval counts negatively
IntervalLengthSigned(it) == it.end - it.start

\* Math.max(0, it.end - it.start)
IntervalLength(it) == Max(0, it.end - it.start)

RECURSIVE sumIntervals(_)
sumIntervals(intervals) ==
    IF intervals = <<>> THEN 0
    ELSE sumIntervals(SubSeq(intervals, 1, Len(intervals) - 1))
         + IntervalLength(intervals[Len(intervals)])

\* a faulty AdvanceA: the pointer whose interval starts first advances
AdvanceAByStart(x, y) == x.start <= y.start

\* `if (x.end <= y.end) i++ else j++`
AdvanceA(x, y) == x.end <= y.end

RECURSIVE OverlapLoop(_, _, _, _, _)
OverlapLoop(a, b, i, j, acc) ==
    IF ~(i <= Len(a) /\ j <= Len(b)) THEN acc
    ELSE LET x == a[i]
             y == b[j]
             start == Max(x.start, y.start)
             end == Min(x.end, y.end)
             acc2 == IF end > start THEN acc + (end - start) ELSE acc
         IN IF AdvanceA(x, y)
            THEN OverlapLoop(a, b, i + 1, j, acc2)
            ELSE OverlapLoop(a, b, i, j + 1, acc2)

overlapSeconds(a, b) == OverlapLoop(a, b, 1, 1, 0)

\* Number.isFinite holds of every integer; the endpoints here are integers.
ensureInterval(interval) ==
    IF interval.start \notin Int \/ interval.end \notin Int THEN Null
    ELSE IF interval.end <= interval.start THEN Null
    ELSE Some(interval)

pushMergedInterval(intervals, next) ==
    IF Len(intervals) > 0 /\ Coalesces(intervals[Len(intervals)], next)
    THEN [intervals EXCEPT ![Len(intervals)].end =
              Max(intervals[Len(intervals)].end, next.end)]
    ELSE Append(intervals, Interval(next.start, next.end))


(***************************************************************************)
(* Observation gap classifier.  A check is [checked_at, status].           *)
(***************************************************************************)
addUnknown(unknown, from, to) ==
    LET it == ensureInterval(Interval(from, to))
    IN IF IsNull(it) THEN unknown ELSE pushMergedInterval(unknown, Val(it))

\* a faulty ValidUntil: the verdict window is closed at its end
ValidUntilInclusive(check, intervalSec) == check.checked_at + intervalSec + 1

\* `lastCheck.checked_at + intervalSec`
ValidUntil(check, intervalSec) == check.checked_at + intervalSec

processSegment(unknown, lastCheck, intervalSec, segStart, segEnd) ==
    IF segEnd <= segStart THEN unknown
    ELSE IF IsNull(lastCheck) THEN addUnknown(unknown, segStart, segEnd)
    ELSE LET validUntil == ValidUntil(Val(lastCheck), intervalSec)
         IN IF segStart >= validUntil
            THEN addUnknown(unknown, segStart, segEnd)
            ELSE LET coveredEnd == Min(segEnd, validUntil)
                     u1 == IF Val(lastCheck).status = "unknown"
                           THEN addUnknown(unknown, segStart, coveredEnd)
                           ELSE unknown
                 IN IF coveredEnd < segEnd
                    THEN addUnknown(u1, coveredEnd, segEnd)
                    ELSE u1

\* the `for (const check of checks)` loop and the tail segment after it
RECURSIVE CheckLoop(_, _, _, _, _, _, _, _)
CheckLoop(rangeStart, rangeEnd, intervalSec, checks, k, lastCheck, cursor, unknown) ==
    IF k > Len(checks)
    THEN processSegment(unknown, lastCheck, intervalSec, cursor, rangeEnd)
    ELSE LET check == checks[k]
         IN IF check.checked_at < rangeStart
            THEN CheckLoop(rangeStart, rangeEnd, intervalSec, checks, k + 1,
                           Some(check), cursor, unknown)
            ELSE IF check.checked_at >= rangeEnd
            THEN processSegment(unknown, lastCheck, intervalSec, cursor, rangeEnd)
            ELSE CheckLoop(rangeStart, rangeEnd, intervalSec, checks, k + 1,
                           Some(check), check.checked_at,
                           processSegment(unknown, lastCheck, intervalSec,
                                          cursor, check.checked_at))

buildUnknownIntervals(rangeStart, rangeEnd, intervalSec, checks) ==
    IF rangeEnd <= rangeStart THEN <<>>
    ELSE IF intervalSec \notin Int \/ intervalSec <= 0
    THEN <<Interval(rangeStart, rangeEnd)>>
    ELSE CheckLoop(rangeStart, rangeEnd, intervalSec, checks, 1, Null, rangeStart, <<>>)

(***************************************************************************)
(* Calls of the pure functions: the arguments are drawn by the initial     *)
(* state, an action applies the function and records what it returned.     *)
(***************************************************************************)
\* statuses a check can carry (toCheckStatus)

\* every { start, end } over the grid, with end <= start included
GridIntervals == {Interval(s, e) : s \in 0 .. MaxT, e \in 0 .. MaxT}

ListsOver(S, n) == UNION {[1 .. k -> S] : k \in 0 .. n}

IsProper(it) == it.end > it.start

\* an interval set: every element proper, each beginning strictly after
\* the previous one ends
IsIntervalSet(l) ==
    /\ \A k \in 1 .. Len(l) : IsProper(l[k])
    /\ \A k \in 1 .. Len(l) - 1 : l[k + 1].start > l[k].end

GridIntervalSets ==
    {l \in ListsOver({it \in GridIntervals : IsProper(it)}, (MaxT + 1) \div 2) :
        IsIntervalSet(l)}

NoCall == [fn |-> "none"]

Check(at, st) == [checked_at |-> at, status |-> st]

\* ORDER BY checked_at: ascending, ties in any order
IsChronological(checks) ==
    \A k \in 1 .. Len(checks) - 1 : checks[k].checked_at <= checks[k + 1].checked_at

ClassifyRows == {Check(t, st) : t \in 0 .. MaxCheckT, st \in {"up", "down", "unknown"}}

IdleDb == [kind |-> "none"]
NoResponse == [route |-> "none"]

InitPure ==
    /\ \/ \E l \in ListsOver(GridIntervals, MaxLen) : args = [kind |-> "list", xs |-> l]
       \/ \E a \in GridIntervalSets, b \in ListsOver(GridIntervals, MaxPairLen) :
              args = [kind |-> "pair", a |-> a, b |-> b]
       \/ \E e \in 0 .. MaxCheckT, iv \in 0 .. MaxIntervalSec,
             c \in ListsOver(ClassifyRows, MaxChecks) :
              /\ IsChronological(c)
              /\ args = [kind |-> "classify", rangeStart |-> ClassifyFrom, rangeEnd |-> e,
                         intervalSec |-> iv, checks |-> c]
    /\ ret = NoCall
    /\ db = IdleDb
    /\ now = 0
    /\ response = NoResponse

CallMergeIntervals ==
    /\ ret = NoCall
    /\ args.kind = "list"
    /\ ret' = [fn |-> "mergeIntervals", value |-> mergeIntervals(args.xs)]
    /\ UNCHANGED <<db, now, response, args>>

CallSumIntervals ==
    /\ ret = NoCall
    /\ args.kind = "list"
    /\ ret' = [fn |-> "sumIntervals", value |-> sumIntervals(args.xs)]
    /\ UNCHANGED <<db, now, response, args>>

CallOverlapSeconds ==
    /\ ret = NoCall
    /\ args.kind = "pair"
    /\ ret' = [fn |-> "overlapSeconds", value |-> overlapSeconds(args.a, args.b)]
    /\ UNCHANGED <<db, now, response, args>>

CallBuildUnknownIntervals ==
    /\ ret = NoCall
    /\ args.kind = "classify"
    /\ ret' = [fn |-> "buildUnknownIntervals",
               value |-> buildUnknownIntervals(args.rangeStart, args.rangeEnd,
                                               args.intervalSec, args.checks)]
    /\ UNCHANGED <<db, now, response, args>>

NextPure ==
    \/ CallMergeIntervals
    \/ CallSumIntervals
    \/ CallOverlapSeconds
    \/ CallBuildUnknownIntervals

SpecPure == InitPure /\ [][NextPure]_vars

(***************************************************************************)
(* What an interval list means: the seconds it covers.                     *)
(***************************************************************************)
Covers(l, t) == \E k \in 1 .. Len(l) : l[k].start <= t /\ t < l[k].end

RemoveDegenerate(l) == SelectSeq(l, IsProper)

\* starts strictly ascending, and each element begins strictly after the
\* previous one ends
IsMergedResult(l) ==
    \A k \in 1 .. Len(l) - 1 :
        /\ l[k + 1].start > l[k].start
        /\ l[k + 1].start > l[k].end

\* the inputs with a given start are represented by one element, which
\* reaches at least the largest of their ends
EqualStartsCollapse(xs, merged) ==
    \A i \in 1 .. Len(xs) :
        /\ Cardinality({k \in 1 .. Len(merged) : merged[k].start = xs[i].start}) <= 1
        /\ \A k \in 1 .. Len(merged) :
              merged[k].start = xs[i].start => merged[k].end >= xs[i].end

MergeContract(xs, merged) ==
    /\ mergeIntervals(merged) = merged
    /\ IsMergedResult(merged)
    /\ EqualStartsCollapse(xs, merged)
    /\ \A t \in 0 .. MaxT : Covers(merged, t) <=> Covers(xs, t)

CommonSeconds(a, b) == Cardinality({t \in 0 .. MaxT : Covers(a, t) /\ Covers(b, t)})

\* the intersection lengths of all pairs (a[i], b[j]), none left out; n
\* counts the pairs still to add, in row-major order
RECURSIVE PairwiseSum(_, _, _)
PairwiseSum(a, b, n) ==
    IF n = 0 THEN 0
    ELSE LET x == a[((n - 1) \div Len(b)) + 1]
             y == b[((n - 1) % Len(b)) + 1]
         IN Max(0, Min(x.end, y.end) - Max(x.start, y.start)) + PairwiseSum(a, b, n - 1)

PairwiseOverlap(a, b) == PairwiseSum(a, b, Len(a) * Len(b))

\* C8: on two interval sets (proper intervals, ascending, not overlapping,
\* not touching) overlapSeconds(a, b) equals overlapSeconds(b, a), equals the
\* number of seconds lying in both, and equals the sum of the intersections
\* of all pairs, so advancing a on a tie of ends skips no intersecting pair.
C8_OverlapSymmetric ==
    (ret.fn = "overlapSeconds" /\ IsIntervalSet(args.a) /\ IsIntervalSet(args.b))
        => /\ ret.value = overlapSeconds(args.b, args.a)
           /\ ret.value = CommonSeconds(args.a, args.b)
           /\ ret.value = PairwiseOverlap(args.a, args.b)

\* two interval sets of two intervals each; the first intervals end at the
\* same second and both pairs intersect
C8_Witness ==
    /\ ret.fn = "overlapSeconds"
    /\ IsIntervalSet(args.a) /\ IsIntervalSet(args.b)
    /\ Len(args.a) = 2 /\ Len(args.b) = 2
    /\ args.a[1].end = args.b[1].end
    /\ ret.value = 2

\* the last check of the sequence with checked_at <= t leaves t unknown:
\* there is none, or its verdict expired, or its status is 'unknown'
UnknownAt(checks, intervalSec, t) ==
    LET upTo == {k \in 1 .. Len(checks) : checks[k].checked_at <= t}
    IN \/ upTo = {}
       \/ LET c == checks[CHOOSE k \in upTo : \A m \in upTo : m <= k]
          IN t >= c.checked_at + intervalSec \/ c.status = "unknown"

\* C2: for rangeEnd > rangeStart, intervalSec > 0 and checks sorted by
\* checked_at, buildUnknownIntervals returns an interval set inside
\* [rangeStart, rangeEnd) covering second t iff the last check with
\* checked_at <= t is missing, expired at t, or 'unknown'; checks at or after
\* rangeEnd change nothing.
C2_UnknownIffNoValidVerdict ==
    (/\ ret.fn = "buildUnknownIntervals"
     /\ args.rangeEnd > args.rangeStart
     /\ args.intervalSec > 0)
        => /\ IsIntervalSet(ret.value)
           /\ \A k \in 1 .. Len(ret.value) :
                 ret.value[k].start >= args.rangeStart /\ ret.value[k].end <= args.rangeEnd
           /\ \A t \in args.rangeStart .. args.rangeEnd - 1 :
                 Covers(ret.value, t) <=> UnknownAt(args.checks, args.intervalSec, t)
           /\ ret.value = buildUnknownIntervals(args.rangeStart, args.rangeEnd, args.intervalSec,
                              SelectSeq(args.checks, LAMBDA c : c.checked_at < args.rangeEnd))

\* an 'up' check inside the range whose verdict expires before the range
\* ends, and a check at or after the end of the range: part of the range is
\* unknown and part is not
C2_Witness ==
    /\ ret.fn = "buildUnknownIntervals"
    /\ args.rangeEnd > args.rangeStart
    /\ args.intervalSec > 0
    /\ \E k \in 1 .. Len(args.checks) :
          /\ args.checks[k].status = "up"
          /\ args.checks[k].checked_at >= args.rangeStart
          /\ args.checks[k].checked_at + args.intervalSec < args.rangeEnd
    /\ \E k \in 1 .. Len(args.checks) : args.checks[k].checked_at >= args.rangeEnd
    /\ \E t \in args.rangeStart .. args.rangeEnd - 1 : Covers(ret.value, t)
    /\ \E t \in args.rangeStart .. args.rangeEnd - 1 : ~Covers(ret.value, t)

AllProper(l) == \A k \in 1 .. Len(l) : IsProper(l[k])

IsAscendingByStart(l) == \A k \in 1 .. Len(l) - 1 : l[k].start <= l[k + 1].start

C10_PassThroughWitness ==
    /\ ret.fn = "mergeIntervals"
    /\ ~AllProper(ret.value)
    /\ RemoveDegenerate(ret.value) = mergeIntervals(RemoveDegenerate(args.xs))

(***************************************************************************)
(* The datastore: four relations, read-only for the handlers.  A relation  *)
(* is a set of rows; a query with ORDER BY returns any sequence of the     *)
(* selected rows that is sorted by the key (rows with equal keys come in   *)
(* an order the datastore chooses).                                        *)
(***************************************************************************)
MonitorRow(id, active, iv, created) ==
    [id |-> id, is_active |-> active, interval_sec |-> iv, created_at |-> created]
OutageRow(mid, started, ended) ==
    [monitor_id |-> mid, started_at |-> started, ended_at |-> ended]
CheckRow(mid, at, st, lat) ==
    [monitor_id |-> mid, checked_at |-> at, status |-> st, latency_ms |-> lat]
StateRow(mid, st, checked, lat) ==
    [monitor_id |-> mid, status |-> st, last_checked_at |-> checked, last_latency_ms |-> lat]

OrderedBy(S, key(_)) ==
    {s \in [1 .. Cardinality(S) -> S] :
        /\ \A i, j \in 1 .. Cardinality(S) : i # j => s[i] # s[j]
        /\ \A i \in 1 .. Cardinality(S) - 1 : key(s[i]) <= key(s[i + 1])}

MapSeq(s, f(_)) == [k \in 1 .. Len(s) |-> f(s[k])]

toCheckStatus(value) ==
    IF value \in {"up", "down", "maintenance", "unknown"} THEN value ELSE "unknown"

rangeToSeconds(range) ==
    CASE range = "24h" -> 24 * 60 * 60
      [] range = "7d" -> 7 * 24 * 60 * 60
      [] range = "30d" -> 30 * 24 * 60 * 60

\* Math.floor(now / 60) * 60
MinuteFloor(t) == (t \div 60) * 60

(***************************************************************************)
(* GET /monitors/:id/uptime                                                *)
(***************************************************************************)
\* SELECT ... FROM monitors WHERE id = ?1 AND is_active = 1
ActiveMonitor(d, id) == {m \in d.monitors : m.id = id /\ m.is_active = 1}

\* a faulty UptimeRangeStart: the range is not clamped to created_at
UptimeRangeStartUnclamped(requestedRangeStart, created_at) == requestedRangeStart

\* Math.max(requestedRangeStart, monitor.created_at)
UptimeRangeStart(requestedRangeStart, created_at) == Max(requestedRangeStart, created_at)

\* the outage query: started_at < ?2 AND (ended_at IS NULL OR ended_at > ?3)
SelectedOutages(d, id, rangeEnd, rangeStart) ==
    {r \in d.outages :
        /\ r.monitor_id = id
        /\ r.started_at < rangeEnd
        /\ (IsNull(r.ended_at) \/ Val(r.ended_at) > rangeStart)}

\* the check query: checked_at >= ?2 AND checked_at < ?3
SelectedChecks(d, id, checksStart, rangeEnd) ==
    {r \in d.check_results :
        /\ r.monitor_id = id
        /\ r.checked_at >= checksStart
        /\ r.checked_at < rangeEnd}

\* a faulty ClampOutage: an ongoing outage is given no length
ClampOutageOpenEmpty(r, rangeStart, rangeEnd) ==
    Interval(Max(r.started_at, rangeStart),
             IF IsNull(r.ended_at) THEN rangeStart ELSE Min(Val(r.ended_at), rangeEnd))

\* start = max(started_at, rangeStart); end = min(ended_at ?? rangeEnd, rangeEnd)
ClampOutage(r, rangeStart, rangeEnd) ==
    Interval(Max(r.started_at, rangeStart),
             Min(IF IsNull(r.ended_at) THEN rangeEnd ELSE Val(r.ended_at), rangeEnd))

DowntimeIntervals(outageRows, rangeStart, rangeEnd) ==
    LET clamp(r) == ClampOutage(r, rangeStart, rangeEnd)
    IN mergeIntervals(SelectSeq(MapSeq(outageRows, clamp), IsProper))

\* a faulty UnknownSec: the overlap with downtime is not taken out
UnknownSecDoubleCounted(unknownIntervals, downtimeIntervals) ==
    Max(0, sumIntervals(unknownIntervals))

\* Math.max(0, sumIntervals(unknown) - overlapSeconds(unknown, downtime))
UnknownSec(unknownIntervals, downtimeIntervals) ==
    Max(0, sumIntervals(unknownIntervals) - overlapSeconds(unknownIntervals, downtimeIntervals))

\* a faulty UptimeSec: unknown time is counted as available
UptimeSecIgnoringUnknown(total_sec, downtime_sec, unknown_sec) ==
    Max(0, total_sec - Min(total_sec, downtime_sec))

\* unavailable_sec = min(total, downtime + unknown); uptime_sec = max(0, total - unavailable)
UptimeSec(total_sec, downtime_sec, unknown_sec) ==
    Max(0, total_sec - Min(total_sec, downtime_sec + unknown_sec))

\* a faulty ChecksStart: no check before the range start is fetched
ChecksStartNoLookback(rangeStart, interval_sec) == rangeStart

\* checksStart = rangeStart - monitor.interval_sec
ChecksStart(rangeStart, interval_sec) == rangeStart - interval_sec

\* the handler from `const now` on, for the monitor row found, the outage
\* rows and the check rows in the order the datastore returned them
UptimeBody(monitor, t, range, outageRows, checkRows) ==
    LET rangeEnd == MinuteFloor(t)
        requestedRangeStart == rangeEnd - rangeToSeconds(range)
        rangeStart == UptimeRangeStart(requestedRangeStart, monitor.created_at)
        total_sec == Max(0, rangeEnd - rangeStart)
        downtimeIntervals == DowntimeIntervals(outageRows, rangeStart, rangeEnd)
        downtime_sec == sumIntervals(downtimeIntervals)
        conv(r) == Check(r.checked_at, toCheckStatus(r.status))
        unknownIntervals ==
            buildUnknownIntervals(rangeStart, rangeEnd, monitor.interval_sec,
                                  MapSeq(checkRows, conv))
        unknown_sec == UnknownSec(unknownIntervals, downtimeIntervals)
        uptime_sec == UptimeSec(total_sec, downtime_sec, unknown_sec)
    IN [route |-> "uptime", status |-> 200,
        monitor |-> monitor.id, range |-> range,
        range_start_at |-> rangeStart, range_end_at |-> rangeEnd,
        total_sec |-> total_sec, downtime_sec |-> downtime_sec,
        unknown_sec |-> unknown_sec, uptime_sec |-> uptime_sec,
        \* (uptime_sec / total_sec) * 100, kept as an exact fraction
        uptime_pct |-> IF total_sec = 0 THEN <<0, 1>> ELSE <<uptime_sec * 100, total_sec>>]

NotFound(route, id) ==
    [route |-> route, status |-> 404, monitor |-> id, code |-> "NOT_FOUND"]

GetUptime(id, range) ==
    /\ response = NoResponse
    /\ IF ActiveMonitor(db, id) = {}
       THEN response' = NotFound("uptime", id)
       ELSE LET monitor == CHOOSE m \in ActiveMonitor(db, id) : TRUE
                rangeEnd == MinuteFloor(now)
                rangeStart == UptimeRangeStart(rangeEnd - rangeToSeconds(range),
                                               monitor.created_at)
                checksStart == ChecksStart(rangeStart, monitor.interval_sec)
                byStart(r) == r.started_at
                byChecked(r) == r.checked_at
            IN \E outageRows \in OrderedBy(SelectedOutages(db, id, rangeEnd, rangeStart), byStart),
                  checkRows \in OrderedBy(SelectedChecks(db, id, checksStart, rangeEnd), byChecked) :
                  response' = UptimeBody(monitor, now, range, outageRows, checkRows)
    /\ UNCHANGED <<db, now, args, ret>>

(***************************************************************************)
(* The uptime specification: a datastore snapshot and a clock are drawn,   *)
(* then one request is answered.                                           *)
(*                                                                         *)
(* Monitor 1 is active.  It was created long before every requested range *)
(* ("old"), UptimeSpan seconds before the range end ("recent"), or after   *)
(* the minute-floored range end, within the current minute ("new").  Its   *)
(* outage and check rows lie around the start of the 24h range (around     *)
(* created_at for a recent monitor): one second steps from before the      *)
(* start to after the end of a window of UptimeSpan seconds.  Monitor 2 is *)
(* inactive and has rows of its own, which no answer about monitor 1 may   *)
(* count.                                                                  *)
(***************************************************************************)
UptimeSpan == 3
UptimeRanges == {"24h", "7d", "30d"}
UptimeAges == {"old", "recent", "new"}
UptimeIntervalSecs == {1, 2}

\* where the rows of monitor 1 are placed
WindowStart(age) ==
    IF age = "old" THEN MinuteFloor(ClockAt) - rangeToSeconds("24h")
    ELSE MinuteFloor(ClockAt) - UptimeSpan

CreatedAt(age) ==
    CASE age = "old" -> MinuteFloor(ClockAt) - rangeToSeconds("30d") - 60
      [] age = "recent" -> MinuteFloor(ClockAt) - UptimeSpan
      [] age = "new" -> MinuteFloor(ClockAt) + 3

\* <<started_at, ended_at>> of the outage rows, as offsets from the window
\* start w: wholly before the window, ending exactly at w, straddling w,
\* inside (touching, overlapping or apart), of no length, reaching or
\* passing the window end, starting at the window end, and ongoing
OutageOffsets ==
    {<<-2, Some(-1)>>, <<-1, Some(0)>>, <<-1, Some(1)>>, <<-1, Some(4)>>, <<-1, Null>>,
     <<0, Some(1)>>, <<0, Some(2)>>, <<0, Some(3)>>,
     <<1, Some(1)>>, <<1, Some(2)>>, <<1, Some(3)>>, <<1, Null>>,
     <<2, Some(3)>>, <<2, Some(4)>>, <<3, Some(4)>>, <<3, Null>>}

OutageUniverse(w) ==
    {OutageRow(1, w + o[1], IF IsNull(o[2]) THEN Null ELSE Some(w + Val(o[2]))) :
        o \in OutageOffsets}

\* <<checked_at, status>> of the check rows, as offsets from the window start
CheckOffsets ==
    {<<-3, "up">>, <<-2, "up">>, <<-1, "up">>, <<-1, "unknown">>, <<0, "up">>,
     <<1, "up">>, <<1, "unknown">>, <<2, "up">>, <<3, "up">>}

CheckUniverse(w) == {CheckRow(1, w + c[1], c[2], Null) : c \in CheckOffsets}

Range(f) == {f[x] : x \in DOMAIN f}

SubsetsOfSize(R, k) == {S \in {Range(f) : f \in [1 .. k -> R]} : Cardinality(S) = k}

ForeignOutages(w) == {OutageRow(2, w - 1, Null)}
ForeignChecks(w) == {CheckRow(2, w + t, "up", Null) : t \in -1 .. 3}

Init ==
    /\ now = ClockAt
    /\ \E age \in UptimeAges, iv \in UptimeIntervalSecs, no \in 0 .. MaxRows :
          \E outs \in SubsetsOfSize(OutageUniverse(WindowStart(age)), no) :
             \E nc \in 0 .. MaxRows - no :
                \E chks \in SubsetsOfSize(CheckUniverse(WindowStart(age)), nc) :
                   db = [kind |-> "uptime",
                         monitors |-> {MonitorRow(1, 1, iv, CreatedAt(age)),
                                       MonitorRow(2, 0, iv, CreatedAt("old"))},
                         monitor_state |-> {},
                         outages |-> outs \cup ForeignOutages(WindowStart(age)),
                         check_results |-> chks \cup ForeignChecks(WindowStart(age))]
    /\ response = NoResponse
    /\ args = [kind |-> "none"]
    /\ ret = NoCall

Next ==
    \E id \in {1, 2}, range \in UptimeRanges : GetUptime(id, range)

Spec == Init /\ [][Next]_vars

(***************************************************************************)
(* Counting the seconds of [lo, hi) at which P holds.  A short range is    *)
(* counted second by second.  A long one is cut at the given points, where *)
(* P may change (P is constant between two neighbouring cuts), and the     *)
(* pieces that begin where P holds are added up.                           *)
(***************************************************************************)
RECURSIVE SumLengths(_)
SumLengths(pieces) ==
    IF pieces = {} THEN 0
    ELSE LET p == CHOOSE q \in pieces : TRUE
         IN (p[2] - p[1]) + SumLengths(pieces \ {p})

CountSeconds(lo, hi, cuts, P(_)) ==
    IF hi <= lo THEN 0
    ELSE IF hi - lo <= 64 THEN Cardinality({t \in lo .. hi - 1 : P(t)})
    ELSE LET C == {c \in cuts \cup {lo} : lo <= c /\ c < hi}
             next(c) == IF \E d \in C : d > c
                        THEN CHOOSE d \in C : d > c /\ \A e \in C : e > c => d <= e
                        ELSE hi
         IN SumLengths({<<c, next(c)>> : c \in {x \in C : P(x)}})

\* the uptime answer in the response, if the request was answered with one
IsUptimeAnswer == response.route = "uptime" /\ response.status = 200

AskedMonitor == CHOOSE m \in db.monitors : m.id = response.monitor

OutagesOf(id) == {o \in db.outages : o.monitor_id = id}
ChecksOf(id) == {c \in db.check_results : c.monitor_id = id}

\* second t lies in an outage of the monitor (an ongoing one has no end)
DownAt(id, t) ==
    \E o \in OutagesOf(id) :
        o.started_at <= t /\ (IsNull(o.ended_at) \/ t < Val(o.ended_at))

\* every time at which DownAt or UnknownAt can change
CutsOf(id, intervalSec) ==
    {o.started_at : o \in OutagesOf(id)}
        \cup {Val(o.ended_at) : o \in {x \in OutagesOf(id) : ~IsNull(x.ended_at)}}
        \cup {c.checked_at : c \in ChecksOf(id)}
        \cup {c.checked_at + intervalSec : c \in ChecksOf(id)}

\* C1: every uptime answer has unknown_sec + downtime_sec + uptime_sec ==
\* total_sec with all four >= 0, whatever created_at, interval_sec, the
\* outage rows and the check rows.
C1_UptimeConservation ==
    IsUptimeAnswer =>
        /\ response.unknown_sec + response.downtime_sec + response.uptime_sec
              = response.total_sec
        /\ response.total_sec >= 0
        /\ response.downtime_sec >= 0
        /\ response.unknown_sec >= 0
        /\ response.uptime_sec >= 0

\* an answer with all three classes present, from overlapping outages one of
\* which is ongoing
C1_Witness ==
    /\ IsUptimeAnswer
    /\ response.downtime_sec > 0 /\ response.unknown_sec > 0 /\ response.uptime_sec > 0
    /\ \E o1, o2 \in OutagesOf(1) :
          /\ o1 # o2 /\ IsNull(o2.ended_at) /\ ~IsNull(o1.ended_at)
          /\ o1.started_at < o2.started_at /\ o2.started_at < Val(o1.ended_at)
          /\ o2.started_at < response.range_end_at

\* C3: downtime_sec is the number of seconds of [range_start_at,
\* range_end_at) lying in at least one outage of the monitor, and unknown_sec
\* the number of seconds of the range that the last fetched check leaves
\* unknown and that lie in no outage.
C3_DowntimeWinsOverUnknown ==
    IsUptimeAnswer =>
        LET id == response.monitor
            iv == AskedMonitor.interval_sec
            lo == response.range_start_at
            hi == response.range_end_at
            down(t) == DownAt(id, t)
            byChecked(r) == r.checked_at
            conv(r) == Check(r.checked_at, toCheckStatus(r.status))
        IN /\ response.downtime_sec = CountSeconds(lo, hi, CutsOf(id, iv), down)
           /\ \E rows \in OrderedBy(SelectedChecks(db, id, lo - iv, hi), byChecked) :
                 LET unknownOnly(t) == UnknownAt(MapSeq(rows, conv), iv, t) /\ ~DownAt(id, t)
                 IN response.unknown_sec = CountSeconds(lo, hi, CutsOf(id, iv), unknownOnly)

\* an answer where an ongoing outage and a closed one overlap inside the
\* range and a check left part of the downtime unknown
C3_Witness ==
    /\ IsUptimeAnswer
    /\ response.downtime_sec > 0 /\ response.unknown_sec > 0
    /\ \E o1, o2 \in OutagesOf(1) :
          /\ IsNull(o1.ended_at) /\ ~IsNull(o2.ended_at)
          /\ o1.started_at > response.range_start_at
          /\ o2.started_at < o1.started_at /\ Val(o2.ended_at) > o1.started_at
    /\ \E c \in ChecksOf(1) :
          /\ c.status = "unknown"
          /\ c.checked_at >= response.range_start_at
          /\ DownAt(1, c.checked_at)

\* C6: range_start_at == max(range_end_at - rangeSeconds(range), created_at):
\* a monitor created after the requested start has range_start_at ==
\* created_at, downtime_sec counts only outage seconds from created_at on,
\* and downtime and unknown together fit between created_at and the range end.
C6_RangeClampedToCreation ==
    IsUptimeAnswer =>
        LET id == response.monitor
            created == AskedMonitor.created_at
            hi == response.range_end_at
            requested == hi - rangeToSeconds(response.range)
            down(t) == DownAt(id, t)
        IN /\ hi = MinuteFloor(now)
           /\ response.range_start_at = Max(requested, created)
           /\ created > requested => response.range_start_at = created
           /\ response.downtime_sec
                 = CountSeconds(Max(requested, created), hi,
                                CutsOf(id, AskedMonitor.interval_sec), down)
           /\ created > requested =>
                 response.downtime_sec + response.unknown_sec <= Max(0, hi - created)

\* a clamped answer: the monitor was created inside the requested range, an
\* outage began before it was created and runs into the range
C6_Witness ==
    /\ IsUptimeAnswer
    /\ AskedMonitor.created_at > response.range_end_at - rangeToSeconds(response.range)
    /\ response.range_start_at = AskedMonitor.created_at
    /\ response.downtime_sec > 0
    /\ \E o \in OutagesOf(1) :
          o.started_at < AskedMonitor.created_at /\ DownAt(1, AskedMonitor.created_at)

\* C11: the lookback of interval_sec is sufficient.  In whatever order the
\* monitor's whole check history is sorted by checked_at,
\* buildUnknownIntervals gives for it the intervals it gives for the checks
\* with range_start_at - interval_sec <= checked_at < range_end_at alone, and
\* unknown_sec and uptime_sec of the answer are those computed from the whole
\* history: no check older than the lookback or at or after the range end
\* changes a figure.
C11_LookbackSufficient ==
    IsUptimeAnswer =>
        LET id == response.monitor
            iv == AskedMonitor.interval_sec
            lo == response.range_start_at
            hi == response.range_end_at
            byChecked(r) == r.checked_at
            byStart(r) == r.started_at
            conv(r) == Check(r.checked_at, toCheckStatus(r.status))
            fetched(r) == lo - iv <= r.checked_at /\ r.checked_at < hi
            unknownOf(rows) == buildUnknownIntervals(lo, hi, iv, MapSeq(rows, conv))
        IN /\ \A whole \in OrderedBy(ChecksOf(id), byChecked) :
                 unknownOf(SelectSeq(whole, fetched)) = unknownOf(whole)
           /\ \E whole \in OrderedBy(ChecksOf(id), byChecked),
                 outs \in OrderedBy(SelectedOutages(db, id, hi, lo), byStart) :
                 LET downtime == DowntimeIntervals(outs, lo, hi)
                     unknown_sec == UnknownSec(unknownOf(whole), downtime)
                 IN /\ response.unknown_sec = unknown_sec
                    /\ response.uptime_sec
                          = UptimeSec(response.total_sec, sumIntervals(downtime), unknown_sec)

\* the history holds a check older than the lookback, an 'up' check inside
\* the lookback whose verdict reaches into the range, and a check at or after
\* the range end; part of the range is unknown and part is up
C11_Witness ==
    /\ IsUptimeAnswer
    /\ \E c \in ChecksOf(response.monitor) :
          c.checked_at < response.range_start_at - AskedMonitor.interval_sec
    /\ \E c \in ChecksOf(response.monitor) :
          /\ c.status = "up"
          /\ c.checked_at < response.range_start_at
          /\ c.checked_at + AskedMonitor.interval_sec > response.range_start_at
    /\ \E c \in ChecksOf(response.monitor) : c.checked_at >= response.range_end_at
    /\ response.unknown_sec > 0 /\ response.uptime_sec > 0

\* C12: every uptime answer describes a well-formed range: range_start_at <=
\* range_end_at and total_sec == range_end_at - range_start_at, for every
\* created_at and every now, a monitor created after the minute-floored range
\* end included.
C12_WellFormedRange ==
    IsUptimeAnswer =>
        /\ response.range_start_at <= response.range_end_at
        /\ response.total_sec = response.range_end_at - response.range_start_at

\* the answer for a monitor created within the current minute: the range
\* starts at created_at, after its end, and total_sec is 0
C12_InvertedRange ==
    /\ IsUptimeAnswer
    /\ AskedMonitor.created_at > MinuteFloor(now)
    /\ AskedMonitor.created_at <= now
    /\ response.range_start_at = AskedMonitor.created_at
    /\ response.range_end_at = MinuteFloor(now)
    /\ response.range_start_at > response.range_end_at
    /\ response.total_sec = 0
    /\ response.total_sec # response.range_end_at - response.range_start_at

\* apart from such a monitor the range is well formed
C12_WellFormedWhenCreatedBeforeEnd ==
    (IsUptimeAnswer /\ AskedMonitor.created_at <= MinuteFloor(now)) =>
        /\ response.range_start_at <= response.range_end_at
        /\ response.total_sec = response.range_end_at - response.range_start_at

(***************************************************************************)
(* GET /status                                                             *)
(***************************************************************************)
HEARTBEAT_LIMIT == 60
HEARTBEAT_LOOKBACK_SEC == 7 * 24 * 60 * 60

MonitorStatuses == {"up", "down", "maintenance", "paused", "unknown"}

\* value is the nullable state_status of the LEFT JOIN
toMonitorStatus(value) ==
    IF ~IsNull(value) /\ Val(value) \in MonitorStatuses THEN Val(value) ELSE "unknown"

\* FROM monitors m LEFT JOIN monitor_state s ON s.monitor_id = m.id
\* WHERE m.is_active = 1: a monitor without a state row has NULL columns
JoinedRow(d, m) ==
    LET st == {x \in d.monitor_state : x.monitor_id = m.id}
    IN IF st = {}
       THEN [id |-> m.id, interval_sec |-> m.interval_sec, state_status |-> Null,
             last_checked_at |-> Null, last_latency_ms |-> Null]
       ELSE LET x == CHOOSE y \in st : TRUE
            IN [id |-> m.id, interval_sec |-> m.interval_sec, state_status |-> Some(x.status),
                last_checked_at |-> x.last_checked_at, last_latency_ms |-> x.last_latency_ms]

\* ORDER BY m.id (ids are unique, so the order is fixed)
StatusMonitorRows(d) ==
    LET rows == {JoinedRow(d, m) : m \in {x \in d.monitors : x.is_active = 1}}
        byId(r) == r.id
    IN CHOOSE s \in OrderedBy(rows, byId) : TRUE

\* a faulty StaleGap: a gap of exactly 2 * interval_sec is stale
StaleGapInclusive(t, last_checked_at, interval_sec) ==
    t - last_checked_at >= interval_sec * 2

\* now - r.last_checked_at > r.interval_sec * 2
StaleGap(t, last_checked_at, interval_sec) ==
    t - last_checked_at > interval_sec * 2

IsStale(t, stateStatus, r) ==
    IF stateStatus = "paused" \/ stateStatus = "maintenance" THEN FALSE
    ELSE IF IsNull(r.last_checked_at) THEN TRUE
    ELSE StaleGap(t, Val(r.last_checked_at), r.interval_sec)

\* one element of monitorsList, before the heartbeats are attached
StatusMonitor(t, r) ==
    LET stateStatus == toMonitorStatus(r.state_status)
        isStale == IsStale(t, stateStatus, r)
    IN [id |-> r.id,
        status |-> IF isStale THEN "unknown" ELSE stateStatus,
        is_stale |-> isStale,
        last_checked_at |-> r.last_checked_at,
        last_latency_ms |-> IF isStale THEN Null ELSE r.last_latency_ms,
        heartbeats |-> <<>>]

\* for (const m of monitorsList) counts[m.status]++
StatusCounts(monitorsList) ==
    [st \in MonitorStatuses |->
        Cardinality({k \in 1 .. Len(monitorsList) : monitorsList[k].status = st})]

\* a faulty OverallStatus: 'up' is tested before 'maintenance'
OverallStatusUpFirst(counts) ==
    IF counts["down"] > 0 THEN "down"
    ELSE IF counts["unknown"] > 0 THEN "unknown"
    ELSE IF counts["up"] > 0 THEN "up"
    ELSE IF counts["maintenance"] > 0 THEN "maintenance"
    ELSE IF counts["paused"] > 0 THEN "paused"
    ELSE "unknown"

OverallStatus(counts) ==
    IF counts["down"] > 0 THEN "down"
    ELSE IF counts["unknown"] > 0 THEN "unknown"
    ELSE IF counts["maintenance"] > 0 THEN "maintenance"
    ELSE IF counts["up"] > 0 THEN "up"
    ELSE IF counts["paused"] > 0 THEN "paused"
    ELSE "unknown"

\* Rows with equal monitor_id and checked_at come in an order the datastore
\* chooses.  The rows of the model that tie have different latencies and
\* there are at most two of them, so ordering ties by latency, ascending or
\* descending, gives every order the datastore can choose.
TieKey(r) == IF IsNull(r.latency_ms) THEN -1 ELSE Val(r.latency_ms)

\* x comes before r under ORDER BY checked_at DESC
NewerFirst(x, r, tieAsc) ==
    \/ x.checked_at > r.checked_at
    \/ /\ x.checked_at = r.checked_at
       /\ IF tieAsc THEN TieKey(x) < TieKey(r) ELSE TieKey(x) > TieKey(r)

\* a faulty WithinLimit: one row fewer than the limit is kept
WithinLimitExclusive(rn, limit) == rn < limit

\* WHERE rn <= ?limit
WithinLimit(rn, limit) == rn <= limit

\* the batched heartbeat query: the rows of the monitors ids with checked_at
\* >= lookbackStart, numbered per monitor from the newest (tieRn orders the
\* ties of ROW_NUMBER), those numbered up to limit, ORDER BY monitor_id,
\* checked_at DESC (tieOut orders the ties of the result)
HeartbeatRows(d, ids, lookbackStart, limit, tieRn, tieOut) ==
    LET eligible == {r \in d.check_results :
                        r.monitor_id \in ids /\ r.checked_at >= lookbackStart}
        rn == [r \in eligible |->
                  1 + Cardinality({x \in eligible :
                          x.monitor_id = r.monitor_id /\ NewerFirst(x, r, tieRn)})]
        kept == {r \in eligible : WithinLimit(rn[r], limit)}
        pos == [r \in kept |->
                  1 + Cardinality({x \in kept :
                          \/ x.monitor_id < r.monitor_id
                          \/ x.monitor_id = r.monitor_id /\ NewerFirst(x, r, tieOut)})]
    IN [k \in 1 .. Cardinality(kept) |-> CHOOSE r \in kept : pos[r] = k]

Reverse(s) == [k \in 1 .. Len(s) |-> s[Len(s) + 1 - k]]

\* rows.reverse(): the query returns newest first
Chronological(rows) == Reverse(rows)

\* byMonitor.get(m.id) ?? [], in chronological order
HeartbeatsOf(heartbeatRows, id) ==
    LET mine(r) == r.monitor_id = id
        beat(r) == [checked_at |-> r.checked_at, status |-> toCheckStatus(r.status),
                    latency_ms |-> r.latency_ms]
    IN Chronological(MapSeq(SelectSeq(heartbeatRows, mine), beat))

\* the handler, for the ties as the datastore ordered them
StatusBody(d, t, tieRn, tieOut) ==
    LET rangeEnd == MinuteFloor(t)
        lookbackStart == rangeEnd - HEARTBEAT_LOOKBACK_SEC
        results == StatusMonitorRows(d)
        monitorsList == [k \in 1 .. Len(results) |-> StatusMonitor(t, results[k])]
        counts == StatusCounts(monitorsList)
        ids == {monitorsList[k].id : k \in 1 .. Len(monitorsList)}
        heartbeatRows ==
            IF ids = {} THEN <<>>
            ELSE HeartbeatRows(d, ids, lookbackStart, HEARTBEAT_LIMIT, tieRn, tieOut)
    IN [route |-> "status", status |-> 200,
        generated_at |-> t,
        overall_status |-> OverallStatus(counts),
        summary |-> counts,
        monitors |-> [k \in 1 .. Len(monitorsList) |->
                        [monitorsList[k] EXCEPT
                            !.heartbeats = HeartbeatsOf(heartbeatRows, monitorsList[k].id)]]]

GetStatus ==
    /\ response = NoResponse
    /\ \E tieRn \in BOOLEAN, tieOut \in BOOLEAN :
          response' = StatusBody(db, now, tieRn, tieOut)
    /\ UNCHANGED <<db, now, args, ret>>

(***************************************************************************)
(* The status specification.  Monitors 1, 2 and 3 exist, each active or    *)
(* not.  Either the states of monitors 1 and 2 are drawn freely (no state  *)
(* row, or any status with last_checked_at NULL, one second past the stale *)
(* gap, exactly at it, or now) beside a few checks, or the states are      *)
(* fixed and the checks are drawn: for monitor 1 the last n seconds, n up  *)
(* to MaxBurst and so beyond HEARTBEAT_LIMIT, the two oldest at the same   *)
(* second or not; for monitor 2 any of a row just outside the lookback, a  *)
(* row at its first second and two recent rows at the same second.         *)
(***************************************************************************)
StatusIntervalSecs == {1, 30}

StateOptions(id, iv) ==
    {{}} \cup
    {{StateRow(id, st, p[1], p[2])} :
        st \in MonitorStatuses,
        p \in {<<Null, Null>>,
               <<Some(ClockAt - 2 * iv - 1), Some(12)>>,
               <<Some(ClockAt - 2 * iv), Some(12)>>,
               <<Some(ClockAt), Null>>,
               <<Some(ClockAt), Some(12)>>}}

CycleStatus(k) ==
    CASE k % 4 = 0 -> "up" [] k % 4 = 1 -> "down" [] k % 4 = 2 -> "maintenance"
      [] OTHER -> "unknown"

\* monitor 1 was checked in each of the last n seconds; with tied, its two
\* oldest checks carry the same second
Burst(n, tied) ==
    {CheckRow(1, ClockAt - (IF tied /\ k = n /\ n >= 2 THEN n - 1 ELSE k),
              CycleStatus(k), Some(k)) : k \in 1 .. n}

BurstSizes == (0 .. 2) \cup ((HEARTBEAT_LIMIT - 1) .. MaxBurst)

LookbackStart == MinuteFloor(ClockAt) - HEARTBEAT_LOOKBACK_SEC

Monitor2Rows ==
    {CheckRow(2, LookbackStart - 1, "up", Some(201)),
     CheckRow(2, LookbackStart, "down", Some(202)),
     CheckRow(2, ClockAt - 5, "up", Some(203)),
     CheckRow(2, ClockAt - 5, "unknown", Some(204))}

Monitor3Rows == {CheckRow(3, ClockAt - 1, "up", Some(301))}

StatusMonitors(a1, a2, a3, iv) ==
    {MonitorRow(1, a1, iv, 0), MonitorRow(2, a2, 30, 0), MonitorRow(3, a3, 30, 0)}

Monitor3State == {StateRow(3, "up", Some(ClockAt), Some(12))}

InitStatus ==
    /\ now = ClockAt
    /\ \/ \E a1 \in {0, 1}, a2 \in {0, 1}, a3 \in {0, 1}, iv \in StatusIntervalSecs :
          \E s1 \in StateOptions(1, iv), s2 \in StateOptions(2, 30) :
             db = [kind |-> "status", monitors |-> StatusMonitors(a1, a2, a3, iv),
                   monitor_state |-> s1 \cup s2 \cup Monitor3State,
                   outages |-> {},
                   check_results |-> Burst(2, FALSE) \cup Monitor3Rows]
       \/ \E a1 \in {0, 1}, a2 \in {0, 1} :
          \E n \in BurstSizes, tied \in BOOLEAN, m2 \in SUBSET Monitor2Rows :
             db = [kind |-> "status", monitors |-> StatusMonitors(a1, a2, 0, 30),
                   monitor_state |->
                       {StateRow(1, "up", Some(ClockAt), Some(12)),
                        StateRow(2, "paused", Null, Null)} \cup Monitor3State,
                   outages |-> {},
                   check_results |-> Burst(n, tied) \cup m2 \cup Monitor3Rows]
    /\ response = NoResponse
    /\ args = [kind |-> "none"]
    /\ ret = NoCall

NextStatus == GetStatus

SpecStatus == InitStatus /\ [][NextStatus]_vars

(***************************************************************************)
(* What the datastore records, read without the handler.                   *)
(***************************************************************************)
IsStatusAnswer == response.route = "status" /\ response.status = 200

ActiveIds == {m.id : m \in {x \in db.monitors : x.is_active = 1}}

MonitorOf(id) == CHOOSE m \in db.monitors : m.id = id

\* the recorded state of a monitor; one that was never checked has none
Recorded(id) ==
    LET st == {x \in db.monitor_state : x.monitor_id = id}
    IN IF st = {}
       THEN [status |-> "unknown", last_checked_at |-> Null, last_latency_ms |-> Null]
       ELSE LET x == CHOOSE y \in st : TRUE
            IN [status |-> x.status, last_checked_at |-> x.last_checked_at,
                last_latency_ms |-> x.last_latency_ms]

OperatorEnforced(id) == Recorded(id).status \in {"paused", "maintenance"}

GapStale(id) ==
    \/ IsNull(Recorded(id).last_checked_at)
    \/ response.generated_at - Val(Recorded(id).last_checked_at)
           > 2 * MonitorOf(id).interval_sec

\* the status the freshness rules expose for a monitor
Exposed(id) ==
    IF OperatorEnforced(id) THEN Recorded(id).status
    ELSE IF GapStale(id) THEN "unknown"
    ELSE Recorded(id).status

\* C4: in every /status response each monitor follows the freshness rules in
\* priority order: a recorded paused or maintenance state is exposed as it
\* is and is never stale, whatever last_checked_at is; otherwise the monitor
\* is stale iff last_checked_at is null or now - last_checked_at is more
\* than 2 * interval_sec.  A stale monitor has status 'unknown' and a null
\* last_latency_ms and keeps its last_checked_at; a monitor that is not
\* stale has the recorded status and latency.
C4_FreshnessRules ==
    IsStatusAnswer =>
        \A k \in 1 .. Len(response.monitors) :
            LET m == response.monitors[k]
                rec == Recorded(m.id)
            IN /\ OperatorEnforced(m.id) => ~m.is_stale /\ m.status = rec.status
               /\ ~OperatorEnforced(m.id) => (m.is_stale <=> GapStale(m.id))
               /\ m.last_checked_at = rec.last_checked_at
               /\ m.is_stale => m.status = "unknown" /\ IsNull(m.last_latency_ms)
               /\ ~m.is_stale =>
                      m.status = rec.status /\ m.last_latency_ms = rec.last_latency_ms

\* a monitor recorded 'down' exactly 2 * interval_sec ago is answered 'down'
\* and fresh, beside a monitor recorded one second earlier with a latency,
\* answered stale without it
C4_Witness ==
    /\ IsStatusAnswer
    /\ Len(response.monitors) >= 2
    /\ LET m1 == response.monitors[1]
           m2 == response.monitors[2]
       IN /\ Recorded(m1.id).status = "down"
          /\ Recorded(m1.id).last_checked_at
                 = Some(response.generated_at - 2 * MonitorOf(m1.id).interval_sec)
          /\ ~m1.is_stale /\ m1.status = "down"
          /\ Recorded(m2.id).status = "up"
          /\ Recorded(m2.id).last_checked_at
                 = Some(response.generated_at - 2 * MonitorOf(m2.id).interval_sec - 1)
          /\ ~IsNull(Recorded(m2.id).last_latency_ms)
          /\ m2.is_stale /\ m2.status = "unknown" /\ IsNull(m2.last_latency_ms)
          /\ ~IsNull(m2.last_checked_at)

\* the overall status the counts fix, in strict priority
OverallByPriority(summary) ==
    CASE summary["down"] > 0 -> "down"
      [] summary["down"] = 0 /\ summary["unknown"] > 0 -> "unknown"
      [] summary["down"] = 0 /\ summary["unknown"] = 0 /\ summary["maintenance"] > 0
            -> "maintenance"
      [] summary["down"] = 0 /\ summary["unknown"] = 0 /\ summary["maintenance"] = 0
            /\ summary["up"] > 0 -> "up"
      [] summary["down"] = 0 /\ summary["unknown"] = 0 /\ summary["maintenance"] = 0
            /\ summary["up"] = 0 /\ summary["paused"] > 0 -> "paused"
      [] OTHER -> "unknown"

\* C5: in every /status response summary counts each active monitor exactly
\* once, under the status the freshness rules expose for it (a stale 'down'
\* monitor counts as unknown), and overall_status is 'down' if any monitor
\* counts as down, else 'unknown' if any counts as unknown, else
\* 'maintenance', else 'up', else 'paused', else 'unknown' when there is no
\* active monitor.
C5_SummaryAndOverall ==
    IsStatusAnswer =>
        /\ DOMAIN response.summary = MonitorStatuses
        /\ \A st \in MonitorStatuses :
              response.summary[st] = Cardinality({id \in ActiveIds : Exposed(id) = st})
        /\ response.overall_status = OverallByPriority(response.summary)

\* three active monitors, one in maintenance, one up and one paused: overall
\* 'maintenance'
C5_Witness ==
    /\ IsStatusAnswer
    /\ response.summary["down"] = 0 /\ response.summary["unknown"] = 0
    /\ response.summary["maintenance"] = 1 /\ response.summary["up"] = 1
    /\ response.summary["paused"] = 1
    /\ response.overall_status = "maintenance"

\* a monitor recorded 'down' but stale is counted as unknown, and nothing
\* else is down: overall 'unknown'
C5_StaleDownWitness ==
    /\ IsStatusAnswer
    /\ \E id \in ActiveIds : Recorded(id).status = "down" /\ Exposed(id) = "unknown"
    /\ response.summary["down"] = 0 /\ response.summary["unknown"] > 0
    /\ response.overall_status = "unknown"

\* the checks of monitor id the heartbeat lookback still covers
EligibleChecks(id) ==
    {r \in db.check_results :
        /\ r.monitor_id = id
        /\ r.checked_at >= MinuteFloor(response.generated_at) - HEARTBEAT_LOOKBACK_SEC}

BeatOf(r) == [checked_at |-> r.checked_at, status |-> r.status, latency_ms |-> r.latency_ms]

\* C9: in every /status response the monitors are the active ones in
\* ascending id, and the heartbeats of each are its own checks with
\* checked_at >= lookbackStart, the 60 most recent of them when there are
\* more, each once, oldest first; a monitor without such a check has no
\* heartbeats, and no heartbeat comes from a check of another monitor.
C9_Heartbeats ==
    IsStatusAnswer =>
        /\ {response.monitors[k].id : k \in 1 .. Len(response.monitors)} = ActiveIds
        /\ \A j, k \in 1 .. Len(response.monitors) :
              j < k => response.monitors[j].id < response.monitors[k].id
        /\ \A k \in 1 .. Len(response.monitors) :
              LET m == response.monitors[k]
                  hb == m.heartbeats
                  beats == {hb[i] : i \in 1 .. Len(hb)}
                  own == EligibleChecks(m.id)
              IN /\ Len(hb) = Min(HEARTBEAT_LIMIT, Cardinality(own))
                 /\ Cardinality(beats) = Len(hb)
                 /\ beats \subseteq {BeatOf(r) : r \in own}
                 /\ \A r \in own :
                       BeatOf(r) \notin beats =>
                           \A i \in 1 .. Len(hb) : r.checked_at <= hb[i].checked_at
                 /\ \A i \in 1 .. Len(hb) - 1 : hb[i].checked_at <= hb[i + 1].checked_at

\* monitor 1 has more eligible checks than the limit and gets the limit;
\* monitor 2 has a check before the lookback, left out, and one at its first
\* second, kept; monitor 3 is inactive and its check appears nowhere
C9_Witness ==
    /\ IsStatusAnswer
    /\ Len(response.monitors) = 2
    /\ response.monitors[1].id = 1 /\ response.monitors[2].id = 2
    /\ Cardinality(EligibleChecks(1)) > HEARTBEAT_LIMIT
    /\ Len(response.monitors[1].heartbeats) = HEARTBEAT_LIMIT
    /\ response.monitors[1].heartbeats[HEARTBEAT_LIMIT].checked_at = response.generated_at - 1
    /\ \E r \in db.check_results : r.monitor_id = 2 /\ r \notin EligibleChecks(2)
    /\ Len(response.monitors[2].heartbeats) = 3
    /\ response.monitors[2].heartbeats[1].checked_at
           = MinuteFloor(response.generated_at) - HEARTBEAT_LOOKBACK_SEC
    /\ \E r \in db.check_results : r.monitor_id = 3

\* a monitor without an eligible check is listed with no heartbeats
C9_EmptyWitness ==
    /\ IsStatusAnswer
    /\ \E k \in 1 .. Len(response.monitors) :
          /\ EligibleChecks(response.monitors[k].id) = {}
          /\ response.monitors[k].heartbeats = <<>>
          /\ \E r \in db.check_results : r.monitor_id = response.monitors[k].id

=============================================================================
